---------------------------- MODULE Spec2Model ----------------------------
(***************************************************************************)
(* A model of appandrew.py: the Streamlit script that shows the            *)
(* "BESS In construction" spreadsheet as a table with expandable detail    *)
(* panels.                                                                 *)
(*                                                                         *)
(* Python strings are modelled as sequences of one-character strings, so   *)
(* that strip(), lower(), endswith(), replace() and the URL regular        *)
(* expression are computed character by character.                         *)
(***************************************************************************)
EXTENDS Integers, Sequences, FiniteSets, TLC

VARIABLES
    pc,             \* position of the run being modelled
    raw,            \* the DataFrame pd.read_excel returned (caller's object)
    raw_before,     \* its value before the first normalize_columns call
    result1,        \* what the first normalize_columns call returned
    result2,        \* what the second call returned
    text,           \* argument of render_sources
    rendered,       \* what render_sources wrote, in order
    project_name,   \* argument of row_flag
    flag,           \* what row_flag returned
    v,              \* argument of safe_str
    shown,          \* what safe_str returned
    display,        \* what the detail panel prints for it (shown or the dash)
    table,          \* the loaded table: the "PNG Name" cell of each row
    files,          \* names of the files that exist in BASE_DIR
    open_rows,      \* st.session_state.open_rows
    selection,      \* row selection held by the st.dataframe widget
    event,          \* what triggered the latest script run
    panels          \* detail panels drawn by the latest script run, in order

vars == << pc, raw, raw_before, result1, result2, text, rendered,
           project_name, flag, v, shown, display,
           table, files, open_rows, selection, event, panels >>

-----------------------------------------------------------------------------
(* Bounds of the model.                                                     *)

\* rows of the spreadsheet shown in a session
NumRows == 2
\* columns of a raw table handed to normalize_columns
MaxCols == 3
\* rows of a raw table handed to normalize_columns
RawRows == 2
\* pieces a Sources text is put together from
MaxTokens == 4
\* largest absolute value of a numeric cell
MaxNum == 12

-----------------------------------------------------------------------------
(* Python str operations.                                                   *)

Whitespace == {" ", "\t", "\n", "\r"}

UpperLetters ==
  <<"A","B","C","D","E","F","G","H","I","J","K","L","M",
    "N","O","P","Q","R","S","T","U","V","W","X","Y","Z">>

LowerLetters ==
  <<"a","b","c","d","e","f","g","h","i","j","k","l","m",
    "n","o","p","q","r","s","t","u","v","w","x","y","z">>

LowerChar(c) ==
  IF \E i \in 1..26 : UpperLetters[i] = c
  THEN LowerLetters[CHOOSE i \in 1..26 : UpperLetters[i] = c]
  ELSE c

UpperChar(c) ==
  IF \E i \in 1..26 : LowerLetters[i] = c
  THEN UpperLetters[CHOOSE i \in 1..26 : LowerLetters[i] = c]
  ELSE c

\* str.lower()
Lower(s) == [i \in 1..Len(s) |-> LowerChar(s[i])]

RECURSIVE LStrip(_)
LStrip(s) ==
  IF s = <<>> THEN s
  ELSE IF Head(s) \in Whitespace THEN LStrip(Tail(s)) ELSE s

RECURSIVE RStrip(_)
RStrip(s) ==
  IF s = <<>> THEN s
  ELSE IF s[Len(s)] \in Whitespace THEN RStrip(SubSeq(s, 1, Len(s) - 1)) ELSE s

\* str.strip()
Strip(s) == RStrip(LStrip(s))

\* s[i:] of Python, with i counted from 1
From(s, i) == SubSeq(s, i, Len(s))

\* s.startswith(p) at position i
StartsAt(s, i, p) ==
  /\ i + Len(p) - 1 <= Len(s)
  /\ SubSeq(s, i, i + Len(p) - 1) = p

\* str.endswith(suffix)
EndsWith(s, suffix) ==
  /\ Len(suffix) <= Len(s)
  /\ SubSeq(s, Len(s) - Len(suffix) + 1, Len(s)) = suffix

\* str.replace(old, new): every non-overlapping occurrence, left to right
RECURSIVE Replace(_, _, _)
Replace(s, old, new) ==
  IF s = <<>> THEN <<>>
  ELSE IF StartsAt(s, 1, old)
       THEN new \o Replace(From(s, Len(old) + 1), old, new)
       ELSE <<Head(s)>> \o Replace(Tail(s), old, new)

Digits == <<"0","1","2","3","4","5","6","7","8","9">>

RECURSIVE NatToStr(_)
NatToStr(n) ==
  IF n < 10 THEN <<Digits[n + 1]>>
  ELSE NatToStr(n \div 10) \o <<Digits[(n % 10) + 1]>>

\* str(int)
IntToStr(n) == IF n < 0 THEN <<"-">> \o NatToStr(0 - n) ELSE NatToStr(n)

\* two-digit field of a date
Pad2(n) == IF n < 10 THEN <<"0">> \o NatToStr(n) ELSE NatToStr(n)

-----------------------------------------------------------------------------
(* Module-level constants of the script.                                    *)

COLUMNS ==
  << <<"P","r","o","j","e","c","t"," ","N","a","m","e">>,
     <<"C","o","m","p","a","n","y">>,
     <<"M","W">>,
     <<"L","o","c","a","t","i","o","n">>,
     <<"C","o","n","n","e","c","t","i","o","n"," ","d","a","t","e">>,
     <<"C","o","m","m","e","n","t","s">>,
     <<"S","o","u","r","c","e","s">>,
     <<"P","N","G"," ","N","a","m","e">> >>

FLAGS ==
  (<<"S","a","m","b","a","r"," ","P","o","w","e","r">> :> <<"g">>) @@
  (<<"B","r","a","d","f","o","r","d"," ","W","e","s","t"," ","1","0","0","M","W">> :> <<"r">>) @@
  (<<"B","i","c","k","e","r"," ","F","e","n"," ","2"," ","S","o","l","a","r">> :> <<"r">>) @@
  (<<"D","i","d","c","o","t"," ","E","n","e","r","g","y"," ","P","a","r","k">> :> <<"r">>) @@
  (<<"B","e","r","k","s","w","e","l","l"," ","E","n","e","r","g","y"," ","S","t","o","r","a","g","e">> :> <<>>) @@
  (<<"W","E","L","B","A","R"," ","E","N","E","R","G","Y"," ","S","T","O","R","A","G","E">> :> <<"g">>) @@
  (<<"C","e","l","l","a","r","h","e","a","d"," ","4","0","0","k","V"," ","E","n","e","r","g","y"," ","S","t","o","r","a","g","e">> :> <<"r">>) @@
  (<<"W","o","r","s","e","t"," ","L","a","n","e"," ","E","n","e","r","g","y"," ","H","u","b">> :> <<"r">>) @@
  (<<"S","u","n","d","o","n"," ","B","a","t","t","e","r","y"," ","E","n","e","r","g","y"," ","S","t","o","r","a","g","e">> :> <<"g">>) @@
  (<<"C","a","p","e","n","h","u","r","s","t"," ","B","E","S","S">> :> <<"g">>) @@
  (<<"L","e","g","a","c","y">> :> <<>>) @@
  (<<"M","o","n","k"," ","F","r","y","s","t","o","n">> :> <<"g">>) @@
  (<<"W","h","i","t","e","g","a","t","e">> :> <<"r">>) @@
  (<<"I","r","o","n"," ","A","c","t","o","n">> :> <<"g">>) @@
  (<<"C","r","y","o","g","e","n","i","c"," ","B","a","t","t","e","r","y"," ","S","y","s","t","e","m"," ","(","S","y","n","c","h","r","o","n","o","u","s",")">> :> <<"g">>) @@
  (<<"N","o","r","w","i","c","h"," ","b","a","t","t","e","r","y"," ","s","t","o","r","a","g","e">> :> <<>>) @@
  (<<"B","o","l","n","e","y"," ","G","r","e","e","n"," ","E","n","e","r","g","y"," ","H","u","b">> :> <<"r">>) @@
  (<<"F","l","a","s","h"," ","S","o","l","a","r"," ","F","a","r","m"," ","(","S","t","a","y","t","h","o","r","p","e",")">> :> <<"g">>) @@
  (<<"R","u","s","h","e","t","t"," ","L","a","n","e"," ","B","E","S","S">> :> <<"r">>) @@
  (<<"B","r","a","m","l","e","y"," ","c","o","-","l","o","c","a","t","e","d"," ","b","e","s","s"," ","a","n","d"," ","s","o","l","a","r">> :> <<>>) @@
  (<<"F","a","i","r","g","l","e","n"," ","B","E","S","S">> :> <<"r">>) @@
  (<<"G","o","l","d","b","o","r","o","u","g","h"," ","R","o","a","d"," ","B","E","S","S">> :> <<>>) @@
  (<<"F","l","e","e","t"," ","E","G","H"," ","(","T","e","r","t","i","a","r","y",")"," ","C","o","x","m","o","o","r"," ","W","o","o","d"," ","B","E","S","S">> :> <<"r">>) @@
  (<<"W","O","R","S","E","T"," ","L","A","N","E"," ","B","E","S","S">> :> <<"r">>) @@
  (<<"K","e","i","t","h","i","c","k"," ","E","s","t","a","t","e",","," ","C","a","l","i","f","o","r","n","i","a"," ","F","a","r","m"," ","s","o","l","a","r"," ","a","n","d"," ","b","a","t","t","e","r","y"," ","s","t","o","r","a","g","e">> :> <<"r">>) @@
  (<<"P","e","m","b","r","o","k","e"," ","B","E","S","S">> :> <<>>) @@
  (<<"E","g","g","b","o","r","o","u","g","h"," ","C","C","G","T"," ","-"," ","O","C","G","T"," ","-"," ","B","E","S","S">> :> <<"r">>) @@
  (<<"N","e","i","l","s","t","o","n"," ","4","0","0","k","V"," ","G","r","e","e","n","e","r"," ","G","r","i","d"," ","P","a","r","k">> :> <<"g">>) @@
  (<<"C","o","y","l","t","o","n"," ","2","7","5","k","V"," ","G","r","e","e","n","e","r"," ","G","r","i","d"," ","P","a","r","k">> :> <<"g">>) @@
  (<<"S","i","z","i","n","g"," ","J","o","h","n"," ","(","R","a","i","n","h","i","l","l",")">> :> <<"g">>) @@
  (<<"H","a","r","k","e","r"," ","G","r","e","e","n"," ","E","n","e","r","g","y"," ","C","e","n","t","r","e">> :> <<>>) @@
  (<<"Z","e","n","o","b","e"," ","B","l","a","c","k","h","i","l","l","o","c","k"," ","3","0","0"," ","M","W">> :> <<"g">>)

\* the em-dash (U+2014) written for an empty field, as one character
Dash == <<"emdash">>

-----------------------------------------------------------------------------
(* Cell values of a DataFrame read from Excel.                              *)

NoDate == <<0, 0, 0>>

PyNone == [kind |-> "None", nan |-> FALSE, num |-> 0, txt |-> <<>>, ymd |-> NoDate]

\* float('nan'): what read_excel gives for a blank cell of a text or number column
NaN == [kind |-> "float", nan |-> TRUE, num |-> 0, txt |-> <<>>, ymd |-> NoDate]

\* pd.NaT: what read_excel gives for a blank cell of a date column
NaT == [kind |-> "NaT", nan |-> FALSE, num |-> 0, txt |-> <<>>, ymd |-> NoDate]

\* a float with an integral value
Float(n) == [kind |-> "float", nan |-> FALSE, num |-> n, txt |-> <<>>, ymd |-> NoDate]

PyInt(n) == [kind |-> "int", nan |-> FALSE, num |-> n, txt |-> <<>>, ymd |-> NoDate]

Str(s) == [kind |-> "str", nan |-> FALSE, num |-> 0, txt |-> s, ymd |-> NoDate]

\* pd.Timestamp at midnight
Timestamp(y, m, d) ==
  [kind |-> "Timestamp", nan |-> FALSE, num |-> 0, txt |-> <<>>, ymd |-> <<y, m, d>>]

\* str(v) of Python for the cell values above
PyStr(c) ==
  CASE c.kind = "None" -> <<"N","o","n","e">>
    [] c.kind = "NaT" -> <<"N","a","T">>
    [] c.kind = "float" ->
         IF c.nan THEN <<"n","a","n">> ELSE IntToStr(c.num) \o <<".","0">>
    [] c.kind = "int" -> IntToStr(c.num)
    [] c.kind = "str" -> c.txt
    [] c.kind = "Timestamp" ->
         NatToStr(c.ymd[1]) \o <<"-">> \o Pad2(c.ymd[2]) \o <<"-">> \o Pad2(c.ymd[3])
           \o <<" ","0","0",":","0","0",":","0","0">>

\* isinstance(v, float) and pd.isna(v)
IsFloatNaN(c) == c.kind = "float" /\ c.nan

-----------------------------------------------------------------------------
(* The row annotator: normalize_flag, row_flag, safe_str, png_filename.     *)

\* FLAGS.get(key, "")
FlagsGet(key) == IF key \in DOMAIN FLAGS THEN FLAGS[key] ELSE <<>>

normalize_flag(x) ==
  LET y == Lower(Strip(x))
  IN  IF y \in {<<"g">>, <<"r">>} THEN y ELSE <<>>

\* row_flag with the strip of the project name left out
row_flag_nostrip(p) == normalize_flag(FlagsGet(p))

row_flag(p) ==
  LET key == Strip(p)
  IN  normalize_flag(FlagsGet(key))

safe_str(c) ==
  IF c.kind = "None" THEN <<>>
  ELSE IF IsFloatNaN(c) THEN <<>>
  ELSE PyStr(c)

\* png_filename with the strip of the name left out
png_filename_nostrip(png_name) ==
  IF png_name = <<>> THEN <<>>
  ELSE IF EndsWith(Lower(png_name), <<".","p","n","g">>) THEN png_name
  ELSE png_name \o <<".","p","n","g">>

\* None is modelled by the empty sequence: no file name is empty
png_filename(png_name) ==
  LET name == Strip(png_name)
  IN  IF name = <<>> THEN <<>>
      ELSE IF EndsWith(Lower(name), <<".","p","n","g">>) THEN name
      ELSE name \o <<".","p","n","g">>

\* x or "—" of the detail panel
OrDash(s) == IF s = <<>> THEN Dash ELSE s

-----------------------------------------------------------------------------
(* render_sources: split the Sources text and link the URLs.                *)

Http == <<"h","t","t","p">>
ColonSlashes == <<":","/","/">>

\* [^\s,]
UrlChar(c) == c \notin Whitespace /\ c # ","

\* end of the longest run of [^\s,] that starts at i (i - 1 when there is none)
RECURSIVE RunEnd(_, _)
RunEnd(s, i) ==
  IF i <= Len(s) /\ UrlChar(s[i]) THEN RunEnd(s, i + 1) ELSE i - 1

\* URL_RE tried at position i: the position of the match's last character,
\* or 0 when https?://[^\s,]+ does not match there (re.IGNORECASE)
UrlMatchEnd(s, i) ==
  LET low  == Lower(s)
      body == IF StartsAt(low, i, Http \o <<"s">> \o ColonSlashes) THEN i + 8
              ELSE IF StartsAt(low, i, Http \o ColonSlashes) THEN i + 7
              ELSE 0
  IN  IF body = 0 THEN 0
      ELSE IF RunEnd(s, body) < body THEN 0
      ELSE RunEnd(s, body)

\* URL_RE.findall(part), scanning from position i
RECURSIVE FindAllFrom(_, _)
FindAllFrom(s, i) ==
  IF i > Len(s) THEN <<>>
  ELSE IF UrlMatchEnd(s, i) = 0 THEN FindAllFrom(s, i + 1)
  ELSE <<SubSeq(s, i, UrlMatchEnd(s, i))>> \o FindAllFrom(s, UrlMatchEnd(s, i) + 1)

URL_RE_findall(s) == FindAllFrom(s, 1)

\* f"[{u}]({u})"
Link(u) == <<"[">> \o u \o <<"]","(">> \o u \o <<")">>

\* for u in urls: md = md.replace(u, f"[{u}]({u})")
RECURSIVE ReplaceEach(_, _)
ReplaceEach(md, urls) ==
  IF urls = <<>> THEN md
  ELSE ReplaceEach(Replace(md, Head(urls), Link(Head(urls))), Tail(urls))

\* re.split(r"[;\n]", t)
RECURSIVE SplitFrom(_, _)
SplitFrom(s, acc) ==
  IF s = <<>> THEN <<acc>>
  ELSE IF Head(s) \in {";", "\n"} THEN <<acc>> \o SplitFrom(Tail(s), <<>>)
  ELSE SplitFrom(Tail(s), acc \o <<Head(s)>>)

re_split(t) == SplitFrom(t, <<>>)

Markdown(body) == [call |-> "markdown", body |-> body]
Write(body) == [call |-> "write", body |-> body]

\* the body of the loop over parts, for one part
render_part(rawpart) ==
  LET part == Strip(rawpart)
      urls == URL_RE_findall(part)
  IN  IF part = <<>> THEN <<>>
      ELSE IF urls # <<>>
           THEN << Markdown(<<"-", " ">> \o ReplaceEach(part, urls)) >>
           ELSE << Markdown(<<"-", " ">> \o part) >>

RECURSIVE render_parts(_)
render_parts(parts) ==
  IF parts = <<>> THEN <<>>
  ELSE render_part(Head(parts)) \o render_parts(Tail(parts))

\* what render_sources(text) writes, in order
render_sources(t0) ==
  LET t == Strip(t0)
  IN  IF t = <<>> THEN << Write(Dash) >>
      ELSE render_parts(re_split(t))

-----------------------------------------------------------------------------
(* DataFrames: column labels in order, one sequence of cells per column,    *)
(* and the number of rows of the RangeIndex.                                *)

DataFrame(n, columns, data) == [index |-> n, columns |-> columns, data |-> data]

\* positions of the columns labelled name, in column order
RECURSIVE PositionsFrom(_, _, _)
PositionsFrom(columns, name, i) ==
  IF i > Len(columns) THEN <<>>
  ELSE (IF columns[i] = name THEN <<i>> ELSE <<>>) \o PositionsFrom(columns, name, i + 1)

Positions(columns, name) == PositionsFrom(columns, name, 1)

\* name in df.columns
HasColumn(df, name) == \E i \in 1..Len(df.columns) : df.columns[i] = name

\* df[name] = value: overwrite every column with that label, or append one
SetItem(df, name, value) ==
  LET filled == [r \in 1..df.index |-> value]
  IN  IF HasColumn(df, name)
      THEN [df EXCEPT !.data = [i \in 1..Len(df.columns) |->
                                  IF df.columns[i] = name THEN filled ELSE df.data[i]]]
      ELSE [df EXCEPT !.columns = Append(df.columns, name),
                      !.data = Append(df.data, filled)]

\* the labels taken as they are, without strip()
StripColumns_nostrip(df) == df

\* df.columns = [str(c).strip() for c in df.columns]; the labels are strings
StripColumns(df) ==
  [df EXCEPT !.columns = [i \in 1..Len(df.columns) |-> Strip(df.columns[i])]]

\* {c.lower(): c for c in df.columns}: a later column overwrites an earlier one
RECURSIVE ActualLowerFrom(_, _, _)
ActualLowerFrom(columns, i, acc) ==
  IF i > Len(columns) THEN acc
  ELSE ActualLowerFrom(columns, i + 1,
         (Lower(columns[i]) :> columns[i]) @@ acc)

ActualLower(columns) == ActualLowerFrom(columns, 1, <<>>)

\* the first loop over COLUMNS, from the k-th expected name on;
\* st holds the rename dict and the frame being filled
RECURSIVE FirstLoop(_, _, _)
FirstLoop(actual_lower, k, st) ==
  IF k > Len(COLUMNS) THEN st
  ELSE LET expected == COLUMNS[k]
           key == Lower(expected)
       IN  IF key \in DOMAIN actual_lower
           THEN FirstLoop(actual_lower, k + 1,
                  [st EXCEPT !.rename = (actual_lower[key] :> expected) @@ st.rename])
           ELSE FirstLoop(actual_lower, k + 1,
                  [st EXCEPT !.df = SetItem(st.df, expected, Str(<<>>))])

\* df.rename(columns=rename): a new frame
Rename(df, rename) ==
  [df EXCEPT !.columns = [i \in 1..Len(df.columns) |->
      IF df.columns[i] \in DOMAIN rename THEN rename[df.columns[i]] ELSE df.columns[i]]]

\* for c in COLUMNS: if c not in df.columns: df[c] = ""
RECURSIVE SecondLoop(_, _)
SecondLoop(k, df) ==
  IF k > Len(COLUMNS) THEN df
  ELSE SecondLoop(k + 1,
         IF HasColumn(df, COLUMNS[k]) THEN df ELSE SetItem(df, COLUMNS[k], Str(<<>>)))

\* df[names]: for each name in turn, every column with that label
RECURSIVE SelectPositions(_, _)
SelectPositions(columns, names) ==
  IF names = <<>> THEN <<>>
  ELSE Positions(columns, Head(names)) \o SelectPositions(columns, Tail(names))

Select(df, names) ==
  LET pos == SelectPositions(df.columns, names)
  IN  [df EXCEPT !.columns = [i \in 1..Len(pos) |-> df.columns[pos[i]]],
                 !.data = [i \in 1..Len(pos) |-> df.data[pos[i]]]]

\* the copy left out: the local name stays bound to the caller's frame
df_nocopy(df) == [frame |-> df, fresh |-> FALSE]

\* df = df.copy(): the local name is bound to a fresh frame
df_copy(df) == [frame |-> df, fresh |-> TRUE]

\* One call of normalize_columns: ret is the frame returned, arg the caller's
\* frame as the call leaves it.  Lines 105 to 114 write in place to the frame
\* the local name is bound to; rename (line 116) rebinds it to a new frame.
normalize_columns(df_in) ==
  LET local == df_copy(df_in)
      stripped == StripColumns(local.frame)
      actual_lower == ActualLower(stripped.columns)
      looped == FirstLoop(actual_lower, 1, [rename |-> <<>>, df |-> stripped])
      renamed == Rename(looped.df, looped.rename)
      completed == SecondLoop(1, renamed)
  IN  [ret |-> Select(completed, COLUMNS),
       arg |-> IF local.fresh THEN df_in ELSE looped.df]

-----------------------------------------------------------------------------
(* The script run: buttons, table selection, detail panels.                 *)

\* df.index.tolist(): the RangeIndex of the loaded table
RowIndex == 0..(Len(table) - 1)

\* expand_all counting the rows from one
expand_all_from_one == 1..Len(table)

expand_all == RowIndex

collapse_all == {}

\* the two st.button blocks: the callbacks run before the table is drawn
after_buttons(ev, open) ==
  IF ev = "Expand all" THEN expand_all
  ELSE IF ev = "Collapse all" THEN collapse_all
  ELSE open

\* st.session_state.open_rows = selected if selected else st.session_state.open_rows
sync_open_rows(selected, open) == IF selected # {} THEN selected ELSE open

\* sorted(...) of a set of integers
RECURSIVE Sorted(_)
Sorted(S) ==
  IF S = {} THEN <<>>
  ELSE LET m == CHOOSE x \in S : \A y \in S : x <= y
       IN  <<m>> \o Sorted(S \ {m})

\* os.path.exists(os.path.join(BASE_DIR, png))
path_exists(png) == png \in files

\* the right-hand column of one detail panel
image_panel(i) ==
  LET png == png_filename(safe_str(table[i + 1]))
  IN  IF png # <<>>
      THEN IF path_exists(png)
           THEN [row |-> i, right |-> "image", png |-> png, lookup |-> TRUE]
           ELSE [row |-> i, right |-> "warning", png |-> png, lookup |-> TRUE]
      ELSE [row |-> i, right |-> "caption", png |-> <<>>, lookup |-> FALSE]

\* df.loc[i] of a label that is not in the index raises KeyError
KeyError(i) == [row |-> i, right |-> "KeyError", png |-> <<>>, lookup |-> FALSE]

\* for i in sorted(open_rows): the run ends at the first exception
RECURSIVE detail_loop(_)
detail_loop(rows) ==
  IF rows = <<>> THEN <<>>
  ELSE IF Head(rows) \notin RowIndex THEN << KeyError(Head(rows)) >>
  ELSE << image_panel(Head(rows)) >> \o detail_loop(Tail(rows))

\* one run of the script, triggered by ev, with the table widget holding sel
ScriptRun(ev, sel) ==
  LET open == sync_open_rows(sel, after_buttons(ev, open_rows))
  IN  /\ event' = ev
      /\ selection' = sel
      /\ open_rows' = open
      /\ panels' = detail_loop(Sorted(open))

\* a pure-function run that is not part of the session
NoSession ==
  /\ table = <<>> /\ files = {} /\ open_rows = {} /\ selection = {}
  /\ event = "none" /\ panels = <<>>

NoNormalize ==
  /\ raw = DataFrame(0, <<>>, <<>>) /\ raw_before = raw
  /\ result1 = raw /\ result2 = raw

NoSources == text = <<>> /\ rendered = <<>>

NoFlag == project_name = <<>> /\ flag = <<>>

NoCell == v = PyNone /\ shown = <<>> /\ display = <<>>

sessionVars == << table, files, open_rows, selection, event, panels >>
normalizeVars == << raw, raw_before, result1, result2 >>
sourcesVars == << text, rendered >>
flagVars == << project_name, flag >>
cellVars == << v, shown, display >>

\* "PNG Name" cells of the model's spreadsheets
PngCells ==
  { NaN, Str(<<>>), Str(<<" ">>), Str(<<"a">>), Str(<<"a",".","P","N","G">>) }

PngFiles == { <<"a",".","p","n","g">>, <<"a",".","P","N","G">> }

Tables == UNION { [1..n -> PngCells] : n \in 0..NumRows }

Init ==
  /\ pc = "session"
  /\ table \in Tables
  /\ files \in SUBSET PngFiles
  /\ open_rows = {}
  /\ selection = {}
  /\ event = "load"
  /\ panels = <<>>
  /\ NoNormalize /\ NoSources /\ NoFlag /\ NoCell

PressExpandAll ==
  /\ pc = "session"
  /\ ScriptRun("Expand all", selection)
  /\ UNCHANGED << pc, table, files, normalizeVars, sourcesVars, flagVars, cellVars >>

PressCollapseAll ==
  /\ pc = "session"
  /\ ScriptRun("Collapse all", selection)
  /\ UNCHANGED << pc, table, files, normalizeVars, sourcesVars, flagVars, cellVars >>

\* a click in the table: the widget reports a new set of row positions
ChangeSelection ==
  /\ pc = "session"
  /\ \E sel \in SUBSET RowIndex :
       /\ sel # selection
       /\ ScriptRun("select", sel)
  /\ UNCHANGED << pc, table, files, normalizeVars, sourcesVars, flagVars, cellVars >>

Next == PressExpandAll \/ PressCollapseAll \/ ChangeSelection

Spec == Init /\ [][Next]_vars

-----------------------------------------------------------------------------
(* normalize_columns applied to the frame read from the spreadsheet.        *)

\* header cells of the model's spreadsheets
RawNames ==
  { <<"M","W">>, <<"M","W"," ">>, <<"m","w">>,
    <<" ","C","o","m","p","a","n","y">>,
    <<"p","r","o","j","e","c","t"," ","n","a","m","e">>,
    <<"P","N","G"," ","N","a","m","e","\t">>,
    <<"S","o","u","r","c","e","s">>,
    <<"N","o","t","e","s">> }

\* read_excel never returns two columns with the same label
Headers ==
  { h \in UNION { [1..k -> RawNames] : k \in 0..MaxCols } :
      \A i, j \in 1..Len(h) : i # j => h[i] # h[j] }

\* the cell of raw column j, row r: every cell differs from every other
RawCell(j, r) == Str(<<"c", Digits[j + 1], "r", Digits[r + 1]>>)

RawFrame(h, n) ==
  DataFrame(n, h, [j \in 1..Len(h) |-> [r \in 1..n |-> RawCell(j, r)]])

InitNormalize ==
  /\ pc = "read"
  /\ \E h \in Headers, n \in 0..RawRows : raw = RawFrame(h, n)
  /\ raw_before = raw
  /\ result1 = DataFrame(0, <<>>, <<>>)
  /\ result2 = DataFrame(0, <<>>, <<>>)
  /\ NoSession /\ NoSources /\ NoFlag /\ NoCell

\* load_df: return normalize_columns(df)
Normalize ==
  /\ pc = "read"
  /\ pc' = "once"
  /\ result1' = normalize_columns(raw).ret
  /\ raw' = normalize_columns(raw).arg
  /\ UNCHANGED << raw_before, result2, sessionVars, sourcesVars, flagVars, cellVars >>

\* the same frame normalized once more
NormalizeAgain ==
  /\ pc = "once"
  /\ pc' = "twice"
  /\ result2' = normalize_columns(raw).ret
  /\ raw' = normalize_columns(raw).arg
  /\ UNCHANGED << raw_before, result1, sessionVars, sourcesVars, flagVars, cellVars >>

NextNormalize == Normalize \/ NormalizeAgain

SpecNormalize == InitNormalize /\ [][NextNormalize]_vars

-----------------------------------------------------------------------------
(* render_sources applied to a Sources text.                                *)

Tokens ==
  { <<"h","t","t","p",":","/","/","a">>,
    <<"H","t","t","p","s",":","/","/","c">>,
    <<"b">>, <<" ">>, <<",">>, <<";">>, <<"\n">> }

RECURSIVE Flatten(_)
Flatten(ss) == IF ss = <<>> THEN <<>> ELSE Head(ss) \o Flatten(Tail(ss))

Texts == { Flatten(ts) : ts \in UNION { [1..k -> Tokens] : k \in 0..MaxTokens } }

InitSources ==
  /\ pc = "start"
  /\ text \in Texts
  /\ rendered = <<>>
  /\ NoSession /\ NoNormalize /\ NoFlag /\ NoCell

RenderSources ==
  /\ pc = "start"
  /\ pc' = "done"
  /\ rendered' = render_sources(text)
  /\ UNCHANGED << text, sessionVars, normalizeVars, flagVars, cellVars >>

NextSources == RenderSources

SpecSources == InitSources /\ [][NextSources]_vars

-----------------------------------------------------------------------------
(* row_flag applied to a project name.                                      *)

Upper(s) == [i \in 1..Len(s) |-> UpperChar(s[i])]

Pads == { <<>>, <<" ">>, <<"\t", " ">> }

ProjectNames ==
  (DOMAIN FLAGS)
    \cup { Lower(k) : k \in DOMAIN FLAGS }
    \cup { Upper(k) : k \in DOMAIN FLAGS }
    \cup { <<>>, <<"U","n","k","n","o","w","n"," ","P","r","o","j","e","c","t">> }

FlagInputs == { l \o n \o r : l \in Pads, n \in ProjectNames, r \in Pads }

InitFlag ==
  /\ pc = "start"
  /\ project_name \in FlagInputs
  /\ flag = <<>>
  /\ NoSession /\ NoNormalize /\ NoSources /\ NoCell

\* style_rows: f = row_flag(pname)
StyleRow ==
  /\ pc = "start"
  /\ pc' = "done"
  /\ flag' = row_flag(project_name)
  /\ UNCHANGED << project_name, sessionVars, normalizeVars, sourcesVars, cellVars >>

NextFlag == StyleRow

SpecFlag == InitFlag /\ [][NextFlag]_vars

-----------------------------------------------------------------------------
(* safe_str applied to a cell value.                                        *)

CellTexts == UNION { [1..k -> {"a", " ", "n"}] : k \in 0..2 }

CellValues ==
  { PyNone, NaN, NaT }
    \cup { Float(n) : n \in (0 - MaxNum)..MaxNum }
    \cup { PyInt(n) : n \in (0 - MaxNum)..MaxNum }
    \cup { Str(s) : s \in CellTexts }
    \cup { Timestamp(y, m, d) : y \in {2026, 2027}, m \in {1, 12}, d \in {1, 31} }

InitCell ==
  /\ pc = "start"
  /\ v \in CellValues
  /\ shown = <<>>
  /\ display = <<>>
  /\ NoSession /\ NoNormalize /\ NoSources /\ NoFlag

\* a field of the detail panel: safe_str(row.get(...)) or the dash
ShowField ==
  /\ pc = "start"
  /\ pc' = "done"
  /\ shown' = safe_str(v)
  /\ display' = OrDash(safe_str(v))
  /\ UNCHANGED << v, sessionVars, normalizeVars, sourcesVars, flagVars >>

NextCell == ShowField

SpecSafeStr == InitCell /\ [][NextCell]_vars

-----------------------------------------------------------------------------
(* Properties of normalize_columns (SpecNormalize).                         *)

\* a raw label equals the expected name after strip(), ignoring case
Matches(label, expected) == Lower(Strip(label)) = Lower(expected)

MatchingRaw(expected) ==
  { j \in 1..Len(raw_before.columns) : Matches(raw_before.columns[j], expected) }

OutputColumns(expected) ==
  { q \in 1..Len(result1.columns) : result1.columns[q] = expected }

Max(S) == CHOOSE x \in S : \A y \in S : y <= x

EmptyColumn == [r \in 1..raw_before.index |-> Str(<<>>)]

\* C1: whatever the raw labels are, the normalized table has exactly the
\* eight columns of COLUMNS, each once and in that order, and an expected
\* column with no matching raw column is the empty string in every row.
C1_ExactlyEightColumns ==
  pc # "read" =>
    /\ result1.columns = COLUMNS
    /\ Len(result1.data) = Len(COLUMNS)
    /\ \A k \in 1..Len(COLUMNS) :
         MatchingRaw(COLUMNS[k]) = {} =>
           \A q \in OutputColumns(COLUMNS[k]) : result1.data[q] = EmptyColumn

\* C2 as claimed: for every expected name E and every raw column that matches
\* E, column E of the normalized table holds that raw column's values, row by
\* row.
C2_MatchingColumnCarried ==
  pc # "read" =>
    \A k \in 1..Len(COLUMNS) : \A j \in MatchingRaw(COLUMNS[k]) :
      /\ OutputColumns(COLUMNS[k]) # {}
      /\ \A q \in OutputColumns(COLUMNS[k]) : result1.data[q] = raw_before.data[j]

\* C2 as amended: for every expected name E with a matching raw column, the
\* normalized table has a column E, and its last column E holds, row by row,
\* the values of the last raw column that matches E; when exactly one raw
\* column matches E, the table has exactly one column E and it holds that
\* raw column's values.
C2_LastMatchingColumnCarried ==
  pc # "read" =>
    \A k \in 1..Len(COLUMNS) :
      MatchingRaw(COLUMNS[k]) # {} =>
        /\ OutputColumns(COLUMNS[k]) # {}
        /\ result1.data[Max(OutputColumns(COLUMNS[k]))]
             = raw_before.data[Max(MatchingRaw(COLUMNS[k]))]
        /\ Cardinality(MatchingRaw(COLUMNS[k])) = 1 =>
             Cardinality(OutputColumns(COLUMNS[k])) = 1

\* C2 witness: a table of two rows was normalized in which one expected name
\* is matched by a single raw column whose label is spelled differently, and
\* another by two raw columns.
C2_Witness ==
  /\ pc = "once"
  /\ raw_before.index = 2
  /\ \E k \in 1..Len(COLUMNS) :
       /\ Cardinality(MatchingRaw(COLUMNS[k])) = 1
       /\ \A j \in MatchingRaw(COLUMNS[k]) : raw_before.columns[j] # COLUMNS[k]
  /\ \E k \in 1..Len(COLUMNS) : Cardinality(MatchingRaw(COLUMNS[k])) = 2

\* C8: normalizing the same raw table twice gives the same table both times,
\* and a call leaves the raw table it was given as it was.
C8_SameResultRawUntouched ==
  /\ pc # "read" => raw = raw_before
  /\ pc = "twice" => result2 = result1

\* C8 witness: a table with rows, a label that strip() changes and expected
\* columns missing was normalized twice.
C8_Witness ==
  /\ pc = "twice"
  /\ raw_before.index > 0
  /\ \E j \in 1..Len(raw_before.columns) :
       Strip(raw_before.columns[j]) # raw_before.columns[j]
  /\ \E k \in 1..Len(COLUMNS) : MatchingRaw(COLUMNS[k]) = {}

-----------------------------------------------------------------------------
(* Properties of render_sources (SpecSources).                              *)

\* one pass over the fragment, left to right: a URL found at the current
\* position is wrapped and skipped, any other character is copied
RECURSIVE WrapOnceFrom(_, _)
WrapOnceFrom(s, i) ==
  IF i > Len(s) THEN <<>>
  ELSE IF UrlMatchEnd(s, i) = 0 THEN <<s[i]>> \o WrapOnceFrom(s, i + 1)
  ELSE Link(SubSeq(s, i, UrlMatchEnd(s, i))) \o WrapOnceFrom(s, UrlMatchEnd(s, i) + 1)

RECURSIVE WrappedFragments(_)
WrappedFragments(parts) ==
  IF parts = <<>> THEN <<>>
  ELSE (IF Strip(Head(parts)) = <<>> THEN <<>>
        ELSE << Markdown(<<"-", " ">> \o WrapOnceFrom(Strip(Head(parts)), 1)) >>)
       \o WrappedFragments(Tail(parts))

\* C3: the markdown written for a fragment is the fragment with every
\* detected URL occurrence wrapped once as [url](url), left to right without
\* overlap, and every other character unchanged, also when a URL occurs
\* twice or is a substring of another.
C3_EachUrlWrappedOnce ==
  (pc = "done" /\ Strip(text) # <<>>) =>
    rendered = WrappedFragments(re_split(Strip(text)))

-----------------------------------------------------------------------------
(* Properties of row_flag (SpecFlag).                                       *)

\* C6: row_flag(p) is "g" exactly when p stripped is a key of FLAGS, matched
\* exactly, whose value lower-cased is "g", "r" exactly when that value
\* lower-cased is "r", and "" in every other case.
C6_FlagByExactTrimmedName ==
  pc = "done" =>
    LET key == Strip(project_name)
        present == key \in DOMAIN FLAGS
    IN  /\ flag = <<"g">> <=> (present /\ Lower(FLAGS[key]) = <<"g">>)
        /\ flag = <<"r">> <=> (present /\ Lower(FLAGS[key]) = <<"r">>)
        /\ flag \in {<<"g">>, <<"r">>, <<>>}

\* C6 witness: a padded project name resolved to green.
C6_Witness ==
  /\ pc = "done"
  /\ flag = <<"g">>
  /\ Strip(project_name) # project_name

-----------------------------------------------------------------------------
(* Properties of safe_str (SpecSafeStr).                                    *)

\* the empty values of the cell variant: None, float NaN, and the empty
\* value of a date cell
IsEmptyCell(c) == c.kind = "None" \/ (c.kind = "float" /\ c.nan) \/ c.kind = "NaT"

\* C7: safe_str returns "" for every empty cell value, so the detail panel
\* shows the dash for it, and the text of the value for every other one.
C7_EmptyCellShownEmpty ==
  pc = "done" =>
    /\ IsEmptyCell(v) => (shown = <<>> /\ display = Dash)
    /\ ~IsEmptyCell(v) => (shown = PyStr(v))

-----------------------------------------------------------------------------
(* Properties of the session (Spec).                                        *)

PanelRows == [k \in 1..Len(panels) |-> panels[k].row]

\* C4: after "Collapse all" no row is expanded and no panel is drawn, after
\* "Expand all" every row is expanded, whatever the table selection is.
C4_ButtonsSetOpenRows ==
  /\ event = "Collapse all" => (open_rows = {} /\ panels = <<>>)
  /\ event = "Expand all" => open_rows = RowIndex

\* C5: after a run triggered by a change of the table selection, the expanded
\* rows are the selected rows, also when the selection became empty.
C5_OpenRowsFollowSelection ==
  event = "select" => open_rows = selection

\* the text of a "PNG Name" cell as the panel sees it
PngText(c) == IF c.kind = "str" THEN c.txt ELSE <<>>

\* the file a non-empty name stands for
ImageFile(name) ==
  IF EndsWith(Lower(name), <<".","p","n","g">>) THEN name
  ELSE name \o <<".","p","n","g">>

\* C9: a row that names an image whose file does not exist gets a warning
\* and no image, every expanded row still gets its panel, in ascending row
\* order, and a row whose PNG Name is empty after trimming causes no file
\* lookup.
C9_MissingImageNonFatal ==
  /\ PanelRows = Sorted(open_rows)
  /\ \A k \in 1..Len(panels) :
       LET name == Strip(PngText(table[panels[k].row + 1]))
       IN  /\ name = <<>> => (~panels[k].lookup /\ panels[k].right = "caption")
           /\ (name # <<>> /\ ImageFile(name) \notin files) =>
                panels[k].right = "warning"

\* C9 witness: the first of several panels is a warning for a missing file,
\* and a later one belongs to a row whose PNG Name is blank.
C9_Witness ==
  /\ Len(panels) >= 2
  /\ panels[1].right = "warning"
  /\ \E k \in 2..Len(panels) :
       /\ table[panels[k].row + 1] = Str(<<" ">>)
       /\ panels[k].right = "caption"

\* C10: every expanded row is a row index of the table, and the detail loop
\* draws one panel for each expanded row and raises no KeyError.
C10_OpenRowsAreRowIndices ==
  /\ open_rows \subseteq RowIndex
  /\ Len(panels) = Cardinality(open_rows)
  /\ \A i \in open_rows :
       Cardinality({ k \in 1..Len(panels) : panels[k].row = i }) = 1
  /\ \A k \in 1..Len(panels) : panels[k].right # "KeyError"

\* C10 witness: "Expand all" was pressed on a table of several rows and all
\* of them are expanded.
C10_Witness ==
  /\ event = "Expand all"
  /\ Len(table) >= 2
  /\ open_rows = RowIndex

====
